---- MODULE Spec2Model ----
\* Model of src/assets/js/main.js: the dark-mode toggle and the mobile menu
\* of the site, as a state machine over the DOM class lists, localStorage,
\* window.darkMode and the browser's timer queue.
EXTENDS Integers, Sequences, FiniteSets, TLC

VARIABLES
    classList,      \* element id -> set of CSS classes the code reads or writes
    localStorage,   \* function from the stored keys to their string values
    darkMode,       \* window.darkMode
    headerElement,  \* module-level headerElement: "null" or the element id
    listeners,      \* element ids carrying a click listener
    loaded,         \* DOMContentLoaded has been dispatched
    menuFns,        \* window.openMobileMenu / closeMobileMenu are assigned
    present,        \* element ids that exist in the document
    timers,         \* pending setTimeout callbacks, oldest first
    last,           \* the last event handled, with the state it started from
    prev            \* the event handled before the last one

vars == <<classList, localStorage, darkMode, headerElement, listeners, loaded,
          menuFns, present, timers, last, prev>>

(***************************************************************************)
(* Bounds and value sets.                                                  *)
(***************************************************************************)

\* Largest number of setTimeout callbacks pending at once.
MaxTimers == 2

\* Strings another writer may have left under the key before the page loads.
StoredValues == {"true", "false", "", "1"}

Key == "dark_mode"

Root == "documentElement"

ThemeElements == {"sun", "moon"}

MenuElements == {"openMenu", "closeMenu", "menu", "mobileMenuBackground"}

ClassedElements == {Root} \cup ThemeElements \cup MenuElements

\* Every id the script looks up with getElementById.
LookedUp == ThemeElements \cup MenuElements \cup {"darkToggle", "header"}

NoStorage == [k \in {} |-> ""]

(***************************************************************************)
(* The machine a handler runs on. ok = FALSE once a lookup of a missing    *)
(* element has thrown: the rest of the handler is skipped, what it did     *)
(* before stays.                                                           *)
(***************************************************************************)

Machine ==
    [classList |-> classList, localStorage |-> localStorage,
     darkMode |-> darkMode, headerElement |-> headerElement,
     listeners |-> listeners, timers |-> timers, ok |-> TRUE]

\* document.getElementById(id) yields an element (documentElement always does).
Exists(id) == id = Root \/ id \in present

\* el.classList.add(c); a TypeError when el is null.
ClassAdd(m, id, c) ==
    IF ~m.ok THEN m
    ELSE IF ~Exists(id) THEN [m EXCEPT !.ok = FALSE]
    ELSE [m EXCEPT !.classList[id] = @ \cup {c}]

\* el.classList.remove(c); a TypeError when el is null.
ClassRemove(m, id, c) ==
    IF ~m.ok THEN m
    ELSE IF ~Exists(id) THEN [m EXCEPT !.ok = FALSE]
    ELSE [m EXCEPT !.classList[id] = @ \ {c}]

\* el.classList.contains(c), read on an element that exists.
ClassContains(m, id, c) == c \in m.classList[id]

\* el.addEventListener("click", ...); a TypeError when el is null.
AddClickListener(m, id) ==
    IF ~m.ok THEN m
    ELSE IF ~Exists(id) THEN [m EXCEPT !.ok = FALSE]
    ELSE [m EXCEPT !.listeners = @ \cup {id}]

\* String(b) for a JavaScript boolean, as localStorage.setItem converts it.
BoolToString(b) == IF b THEN "true" ELSE "false"

\* localStorage.getItem(k): null for a key that is not stored.
GetItem(m, k) ==
    IF k \in DOMAIN m.localStorage
    THEN [isNull |-> FALSE, str |-> m.localStorage[k]]
    ELSE [isNull |-> TRUE, str |-> ""]

\* JavaScript truthiness of a getItem result: null and "" are falsy.
Truthy(v) == ~v.isNull /\ v.str # ""

\* v === s for a getItem result v and a string s.
StrictEquals(v, s) == ~v.isNull /\ v.str = s

\* Variant of SetItem: nothing is stored.
SetItem_Noop(m, k, b) == m

\* localStorage.setItem(k, b) with a boolean argument.
SetItem(m, k, b) ==
    IF ~m.ok THEN m
    ELSE [m EXCEPT !.localStorage =
            [x \in (DOMAIN @) \cup {k} |-> IF x = k THEN BoolToString(b) ELSE @[x]]]

\* Variant of RemoveItem: the key is left in place.
RemoveItem_Noop(m, k) == m

\* localStorage.removeItem(k).
RemoveItem(m, k) ==
    IF ~m.ok THEN m
    ELSE [m EXCEPT !.localStorage = [x \in (DOMAIN @) \ {k} |-> @[x]]]

\* Variant of SetTimeout: the callback is never scheduled.
SetTimeout_Dropped(m) == m

\* setTimeout(cb, 1): the callback joins the timer queue as the newest one;
\* "own" marks the callback of the most recent openMobileMenu call.
SetTimeout(m) ==
    IF ~m.ok THEN m
    ELSE [m EXCEPT !.timers = Append([i \in DOMAIN @ |-> "old"], "own")]

(***************************************************************************)
(* The functions of main.js.                                               *)
(***************************************************************************)

\* Variant of showDay: "menu" written for "moon".
showDay_MenuTypo(m) ==
    LET m1 == ClassAdd(m, "menu", "hidden")
        m2 == ClassRemove(m1, "sun", "hidden")
    IN  ClassRemove(m2, Root, "dark")

\* Variant of showDay: classList.toggle where the code adds and removes.
showDay_Toggles(m) ==
    LET flip(x, id) == IF ~x.ok THEN x
                       ELSE IF ~Exists(id) THEN [x EXCEPT !.ok = FALSE]
                       ELSE IF "hidden" \in x.classList[id]
                            THEN ClassRemove(x, id, "hidden")
                            ELSE ClassAdd(x, id, "hidden")
    IN  ClassRemove(flip(flip(m, "moon"), "sun"), Root, "dark")

showDay(m) ==
    LET m1 == ClassAdd(m, "moon", "hidden")
        m2 == ClassRemove(m1, "sun", "hidden")
    IN  ClassRemove(m2, Root, "dark")

\* Variant of showNight: the sun icon is not hidden.
showNight_SunStaysVisible(m) ==
    ClassAdd(ClassRemove(m, "moon", "hidden"), Root, "dark")

\* Variant of showNight: "menu" written for "moon".
showNight_MenuTypo(m) ==
    LET m1 == ClassAdd(m, "sun", "hidden")
        m2 == ClassRemove(m1, "menu", "hidden")
    IN  ClassAdd(m2, Root, "dark")

\* Variant of showNight: the moon icon is not revealed.
showNight_MoonStaysHidden(m) ==
    ClassAdd(ClassAdd(m, "sun", "hidden"), Root, "dark")

showNight(m) ==
    LET m1 == ClassAdd(m, "sun", "hidden")
        m2 == ClassRemove(m1, "moon", "hidden")
    IN  ClassAdd(m2, Root, "dark")

mobileMenuFunctionality(m) ==
    AddClickListener(AddClickListener(m, "openMenu"), "closeMenu")

\* Variant of openMobileMenu: the open control is not hidden.
openMobileMenu_OpenControlStays(m) ==
    LET m2 == ClassRemove(m, "closeMenu", "hidden")
        m3 == ClassRemove(m2, "menu", "hidden")
        m4 == ClassAdd(m3, "mobileMenuBackground", "opacity-0")
        m5 == ClassRemove(m4, "mobileMenuBackground", "hidden")
    IN  SetTimeout(m5)

\* Variant of openMobileMenu: the overlay is shown without opacity-0 first.
openMobileMenu_NoTransparent(m) ==
    LET m1 == ClassAdd(m, "openMenu", "hidden")
        m2 == ClassRemove(m1, "closeMenu", "hidden")
        m3 == ClassRemove(m2, "menu", "hidden")
        m5 == ClassRemove(m3, "mobileMenuBackground", "hidden")
    IN  SetTimeout(m5)

openMobileMenu(m) ==
    LET m1 == ClassAdd(m, "openMenu", "hidden")
        m2 == ClassRemove(m1, "closeMenu", "hidden")
        m3 == ClassRemove(m2, "menu", "hidden")
        m4 == ClassAdd(m3, "mobileMenuBackground", "opacity-0")
        m5 == ClassRemove(m4, "mobileMenuBackground", "hidden")
    IN  SetTimeout(m5)

\* Variant of closeMobileMenu: classList.toggle on the menu panel.
closeMobileMenu_TogglesMenu(m) ==
    LET m1 == ClassAdd(m, "closeMenu", "hidden")
        m2 == ClassRemove(m1, "openMenu", "hidden")
        m3 == IF ~m2.ok \/ ~Exists("menu") THEN ClassAdd(m2, "menu", "hidden")
              ELSE IF "hidden" \in m2.classList["menu"]
                   THEN ClassRemove(m2, "menu", "hidden")
                   ELSE ClassAdd(m2, "menu", "hidden")
    IN  ClassAdd(m3, "mobileMenuBackground", "hidden")

\* Variant of closeMobileMenu: the overlay is not hidden.
closeMobileMenu_OverlayStays(m) ==
    LET m1 == ClassAdd(m, "closeMenu", "hidden")
        m2 == ClassRemove(m1, "openMenu", "hidden")
    IN  ClassAdd(m2, "menu", "hidden")

closeMobileMenu(m) ==
    LET m1 == ClassAdd(m, "closeMenu", "hidden")
        m2 == ClassRemove(m1, "openMenu", "hidden")
        m3 == ClassAdd(m2, "menu", "hidden")
    IN  ClassAdd(m3, "mobileMenuBackground", "hidden")

\* Variant of overlayCallback: the callback also reveals the overlay.
overlayCallback_ShowsOverlay(m) ==
    ClassRemove(ClassRemove(m, "mobileMenuBackground", "opacity-0"),
                "mobileMenuBackground", "hidden")

\* Variant of overlayCallback: the callback also hides the overlay.
overlayCallback_Closes(m) ==
    ClassAdd(ClassRemove(m, "mobileMenuBackground", "opacity-0"),
             "mobileMenuBackground", "hidden")

\* The callback openMobileMenu hands to setTimeout.
overlayCallback(m) == ClassRemove(m, "mobileMenuBackground", "opacity-0")

\* Variant of StoredDark: the comparison with "true" is left out.
StoredDark_TruthyOnly(m) == Truthy(GetItem(m, Key))

\* The condition of the DOMContentLoaded handler.
StoredDark(m) ==
    Truthy(GetItem(m, Key)) /\ StrictEquals(GetItem(m, Key), "true")

\* The DOMContentLoaded handler.
onDOMContentLoaded(m) ==
    LET m1 == [m EXCEPT !.headerElement =
                  IF "header" \in present THEN "header" ELSE "null"]
        m2 == IF StoredDark(m1)
              THEN showNight([m1 EXCEPT !.darkMode = TRUE])
              ELSE showDay(m1)
    IN  mobileMenuFunctionality(m2)

\* Variant of onDarkToggleClick: decides by window.darkMode.
onDarkToggleClick_ByFlag(m) ==
    IF m.darkMode
    THEN showDay(RemoveItem(m, Key))
    ELSE showNight(SetItem(m, Key, TRUE))

\* Variant of onDarkToggleClick: stores false where the code removes the key.
onDarkToggleClick_StoresFalse(m) ==
    IF ClassContains(m, Root, "dark")
    THEN showDay(SetItem(m, Key, FALSE))
    ELSE showNight(SetItem(m, Key, TRUE))

\* Variant of onDarkToggleClick: the two storage calls are swapped.
onDarkToggleClick_StorageSwapped(m) ==
    IF ClassContains(m, Root, "dark")
    THEN showDay(SetItem(m, Key, TRUE))
    ELSE showNight(RemoveItem(m, Key))

\* Variant of onDarkToggleClick: window.darkMode follows the click.
onDarkToggleClick_SetsFlag(m) ==
    IF ClassContains(m, Root, "dark")
    THEN showDay(RemoveItem([m EXCEPT !.darkMode = FALSE], Key))
    ELSE showNight(SetItem([m EXCEPT !.darkMode = TRUE], Key, TRUE))

\* The click handler of #darkToggle.
onDarkToggleClick(m) ==
    IF ClassContains(m, Root, "dark")
    THEN showDay(RemoveItem(m, Key))
    ELSE showNight(SetItem(m, Key, TRUE))

\* The click handlers of #openMenu and #closeMenu: a ReferenceError when the
\* script stopped before the window functions were assigned.
onOpenMenuClick(m) == IF menuFns THEN openMobileMenu(m) ELSE [m EXCEPT !.ok = FALSE]

onCloseMenuClick(m) == IF menuFns THEN closeMobileMenu(m) ELSE [m EXCEPT !.ok = FALSE]

\* Every pending timer callback runs, oldest first.
RECURSIVE Drain(_)
Drain(m) ==
    IF m.timers = << >> THEN m
    ELSE Drain(overlayCallback([m EXCEPT !.timers = Tail(@)]))

(***************************************************************************)
(* Events.                                                                 *)
(***************************************************************************)

Snapshot ==
    [classList |-> classList, localStorage |-> localStorage,
     darkMode |-> darkMode, loaded |-> loaded, timers |-> timers]

\* The handler's effects become the new state; the event is recorded.
Commit(m, ev, ran) ==
    /\ classList' = m.classList
    /\ localStorage' = m.localStorage
    /\ darkMode' = m.darkMode
    /\ headerElement' = m.headerElement
    /\ listeners' = m.listeners
    /\ timers' = m.timers
    /\ last' = [ev |-> ev, before |-> Snapshot, ran |-> ran, fault |-> ~m.ok]
    /\ prev' = last

\* A click on element id: its handler's result m is the new state when a
\* listener is attached, nothing changes otherwise.
Click(id, ev, m) ==
    /\ id \in present
    /\ IF id \in listeners
       THEN Commit(m, ev, TRUE)
       ELSE Commit(Machine, ev, FALSE)
    /\ UNCHANGED <<loaded, menuFns, present>>

DOMContentLoaded ==
    /\ ~loaded
    /\ loaded' = TRUE
    /\ Commit(onDOMContentLoaded(Machine), "load", TRUE)
    /\ UNCHANGED <<menuFns, present>>

ToggleClick == Click("darkToggle", "toggle", onDarkToggleClick(Machine))

OpenClick ==
    /\ Len(timers) < MaxTimers
    /\ Click("openMenu", "open", onOpenMenuClick(Machine))

CloseClick == Click("closeMenu", "close", onCloseMenuClick(Machine))

\* The oldest pending timer fires.
TimerFire ==
    /\ timers # << >>
    /\ Commit(overlayCallback([Machine EXCEPT !.timers = Tail(@)]), "timer", TRUE)
    /\ UNCHANGED <<loaded, menuFns, present>>

(***************************************************************************)
(* Initial states: the script has run to its end on the freshly parsed     *)
(* document, DOMContentLoaded is still to come.                            *)
(***************************************************************************)

\* The markup's menu: closed. Whether the overlay also starts with
\* opacity-0 is not fixed.
InitMenu(cl) ==
    /\ cl["openMenu"] = {}
    /\ cl["closeMenu"] = {"hidden"}
    /\ cl["menu"] = {"hidden"}
    /\ cl["mobileMenuBackground"] \in {{"hidden"}, {"hidden", "opacity-0"}}

\* The markup's theme classes are arbitrary.
InitTheme(cl) ==
    /\ cl[Root] \in SUBSET {"dark"}
    /\ cl["sun"] \in SUBSET {"hidden"}
    /\ cl["moon"] \in SUBSET {"hidden"}

InitStorage ==
    {NoStorage} \cup {[k \in {Key} |-> v] : v \in StoredValues}

\* The class lists of the freshly parsed document.
Markup ==
    {cl \in {[id \in ClassedElements |->
                 CASE id = Root -> r
                   [] id = "sun" -> s
                   [] id = "moon" -> mo
                   [] id = "mobileMenuBackground" -> bg
                   [] id = "openMenu" -> {}
                   [] OTHER -> {"hidden"}] :
             r \in SUBSET {"dark"}, s \in SUBSET {"hidden"},
             mo \in SUBSET {"hidden"},
             bg \in {{"hidden"}, {"hidden", "opacity-0"}}} :
        InitTheme(cl) /\ InitMenu(cl)}

\* Variant of ScriptListeners: the menu controls are wired by the script's
\* top level too.
ScriptListeners_MenuToo ==
    IF "darkToggle" \in present
    THEN {"darkToggle", "openMenu", "closeMenu"} \cap present
    ELSE {}

\* The listeners the script's top level attaches: the click listener of
\* #darkToggle; a missing #darkToggle throws there.
ScriptListeners == IF "darkToggle" \in present THEN {"darkToggle"} ELSE {}

\* The script reached its end, so the window functions are assigned: not so
\* when the #darkToggle lookup threw before them.
ScriptCompleted == "darkToggle" \in present

\* The state the script leaves when it has run on a parsed document with
\* the elements of `present`.
ScriptRan ==
    /\ classList \in Markup
    /\ localStorage \in InitStorage
    /\ darkMode = FALSE
    /\ headerElement = "null"
    /\ listeners = ScriptListeners
    /\ menuFns = ScriptCompleted
    /\ loaded = FALSE
    /\ timers = << >>
    /\ last = [ev |-> "none", before |-> Snapshot, ran |-> FALSE, fault |-> FALSE]
    /\ prev = last

Init ==
    /\ present = LookedUp
    /\ ScriptRan

Next ==
    \/ DOMContentLoaded
    \/ ToggleClick
    \/ OpenClick
    \/ CloseClick
    \/ TimerFire

Spec == Init /\ [][Next]_vars

\* The browser runs every expired timer: a pending callback fires.
FairSpec == Spec /\ WF_vars(TimerFire)

\* Largest number of looked-up elements the document may lack.
MaxMissing == 1

\* The script has run on a document that lacks up to MaxMissing of the
\* elements it looks up.
FaultInit ==
    /\ present \in {P \in SUBSET LookedUp : Cardinality(LookedUp \ P) <= MaxMissing}
    /\ ScriptRan

\* The script on documents that may lack elements.
FaultSpec == FaultInit /\ [][Next]_vars

\* The page is unloaded and loaded again: the document is parsed afresh,
\* pending timers and listeners go with the old page, localStorage stays,
\* the script runs again.
Reload ==
    /\ classList' \in Markup
    /\ localStorage' = localStorage
    /\ darkMode' = FALSE
    /\ headerElement' = "null"
    /\ listeners' = ScriptListeners
    /\ menuFns' = ScriptCompleted
    /\ loaded' = FALSE
    /\ timers' = << >>
    /\ last' = [ev |-> "reload", before |-> Snapshot, ran |-> TRUE, fault |-> FALSE]
    /\ prev' = last
    /\ UNCHANGED present

\* The script over several loads of the page.
ReloadSpec == Init /\ [][Next \/ Reload]_vars

(***************************************************************************)
(* Vocabulary of the properties.                                           *)
(***************************************************************************)

HiddenIn(cl, id) == "hidden" \in cl[id]

\* Night: moon visible, sun hidden, root carries dark.
NightIn(cl) == ~HiddenIn(cl, "moon") /\ HiddenIn(cl, "sun") /\ "dark" \in cl[Root]

\* Day: sun visible, moon hidden, root lacks dark.
DayIn(cl) == ~HiddenIn(cl, "sun") /\ HiddenIn(cl, "moon") /\ "dark" \notin cl[Root]

\* Open: panel and overlay shown, open control hidden, close control shown.
MenuOpenIn(cl) ==
    /\ ~HiddenIn(cl, "menu")
    /\ ~HiddenIn(cl, "mobileMenuBackground")
    /\ HiddenIn(cl, "openMenu")
    /\ ~HiddenIn(cl, "closeMenu")

\* Closed: panel and overlay hidden, open control shown, close control hidden.
MenuClosedIn(cl) ==
    /\ HiddenIn(cl, "menu")
    /\ HiddenIn(cl, "mobileMenuBackground")
    /\ ~HiddenIn(cl, "openMenu")
    /\ HiddenIn(cl, "closeMenu")

\* What of the menu is shown: the hidden class of its four elements.
MenuVisibility(cl) == [id \in MenuElements |-> HiddenIn(cl, id)]

\* What of the theme is shown.
ThemeView(cl) == [id \in ThemeElements \cup {Root} |-> cl[id]]

Transparent(cl) == "opacity-0" \in cl["mobileMenuBackground"]

HasKey(ls) == Key \in DOMAIN ls

KeyIs(ls, v) == Key \in DOMAIN ls /\ ls[Key] = v

(***************************************************************************)
(* Properties.                                                             *)
(***************************************************************************)

\* C1: when DOMContentLoaded is handled with "true" stored under dark_mode,
\* the handler ends in Night (moon visible, sun hidden, root dark), whatever
\* classes the elements carried before.
C1_LoadStoredTrueIsNight ==
    (last.ev = "load" /\ KeyIs(last.before.localStorage, "true"))
        => NightIn(classList)

\* Reached: a load with "true" stored that started from the Day classes.
C1_Witness ==
    /\ last.ev = "load"
    /\ KeyIs(last.before.localStorage, "true")
    /\ DayIn(last.before.classList)
    /\ NightIn(classList)

\* C2: when DOMContentLoaded is handled with the key absent or holding any
\* string other than "true" ("" and "false" included), the handler ends in
\* Day (sun visible, moon hidden, root not dark).
C2_LoadOtherwiseIsDay ==
    (last.ev = "load" /\ ~KeyIs(last.before.localStorage, "true"))
        => DayIn(classList)

\* Reached: a load with "false" stored that started from the Night classes.
C2_Witness ==
    /\ last.ev = "load"
    /\ KeyIs(last.before.localStorage, "false")
    /\ NightIn(last.before.classList)
    /\ DayIn(classList)

\* C3: a theme-toggle click decides by the root's dark class alone: from a
\* dark root it removes the key and ends in Day, from a root that is not
\* dark it stores "true" and ends in Night, whatever the key and
\* window.darkMode were.
C3_ToggleDecidesByRootClass ==
    (last.ev = "toggle" /\ last.ran) =>
        IF "dark" \in last.before.classList[Root]
        THEN ~HasKey(localStorage) /\ DayIn(classList)
        ELSE KeyIs(localStorage, "true") /\ NightIn(classList)

\* Reached: a click on a root that is not dark while window.darkMode is
\* TRUE and "true" is not what is stored.
C3_Witness ==
    /\ last.ev = "toggle"
    /\ last.ran
    /\ "dark" \notin last.before.classList[Root]
    /\ last.before.darkMode
    /\ ~KeyIs(last.before.localStorage, "true")
    /\ NightIn(classList)
    /\ KeyIs(localStorage, "true")

\* C4 as stated: two consecutive theme-toggle clicks from a state reached
\* after initialization restore the visible theme and leave the key present
\* if it was present, absent if it was absent.
C4_RoundTripKeepsPresence ==
    (last.ev = "toggle" /\ prev.ev = "toggle" /\ prev.before.loaded) =>
        /\ ThemeView(classList) = ThemeView(prev.before.classList)
        /\ HasKey(localStorage) <=> HasKey(prev.before.localStorage)

\* C4 amended: two consecutive theme-toggle clicks from a state reached
\* after initialization restore the visible theme; the key is "true" again
\* if it was "true", absent again if it was absent, and removed if it held
\* any other value.
C4_RoundTrip ==
    (last.ev = "toggle" /\ prev.ev = "toggle" /\ prev.before.loaded) =>
        /\ ThemeView(classList) = ThemeView(prev.before.classList)
        /\ IF KeyIs(prev.before.localStorage, "true")
           THEN KeyIs(localStorage, "true")
           ELSE ~HasKey(localStorage)

\* Reached: two clicks after a load with the key absent, back in Day with
\* the key absent.
C4_Witness ==
    /\ last.ev = "toggle"
    /\ prev.ev = "toggle"
    /\ prev.before.loaded
    /\ ~HasKey(prev.before.localStorage)
    /\ DayIn(prev.before.classList)
    /\ NightIn(last.before.classList)
    /\ DayIn(classList)
    /\ ~HasKey(localStorage)

\* C5: an event changes the menu's visibility only as an open-click taking
\* Closed to Open or a close-click taking Open to Closed; a load, a
\* theme-toggle click and a timer callback never change it.
C5_MenuStateMachine ==
    MenuVisibility(classList) # MenuVisibility(last.before.classList) =>
        \/ /\ last.ev = "open"
           /\ MenuClosedIn(last.before.classList)
           /\ MenuOpenIn(classList)
        \/ /\ last.ev = "close"
           /\ MenuOpenIn(last.before.classList)
           /\ MenuClosedIn(classList)

\* Reached: the timer callback of an open has fired on the open menu, made
\* the overlay opaque and left the menu open.
C5_Witness ==
    /\ last.ev = "timer"
    /\ MenuOpenIn(last.before.classList)
    /\ Transparent(last.before.classList)
    /\ ~Transparent(classList)
    /\ MenuOpenIn(classList)

\* C6: after every open-click the menu is Open (panel and overlay visible,
\* open control hidden, close control visible), and an open menu whose
\* overlay is transparent leads to the overlay being opaque unless the menu
\* is closed first, when pending timer callbacks are run.
C6_OpenShowsMenuAndFadesIn ==
    /\ []((last.ev = "open" /\ last.ran) => MenuOpenIn(classList))
    /\ (MenuOpenIn(classList) /\ Transparent(classList))
           ~> (~Transparent(classList) \/ ~MenuOpenIn(classList))

\* Reached: a callback has made the overlay of the open menu opaque while a
\* callback of another open is still pending.
C6_Witness ==
    /\ last.ev = "timer"
    /\ prev.ev = "open"
    /\ Len(prev.before.timers) > 0
    /\ MenuOpenIn(classList)
    /\ ~Transparent(classList)
    /\ timers # << >>

\* C7: a close-click from Open ends, in the handler itself, with the panel,
\* the overlay and the close control hidden and the open control visible,
\* and schedules nothing.
C7_CloseHidesAtOnce ==
    (last.ev = "close" /\ last.ran /\ MenuOpenIn(last.before.classList)) =>
        /\ MenuClosedIn(classList)
        /\ timers = last.before.timers

\* Reached: a close-click right after an open-click whose callback has not
\* fired yet.
C7_Witness ==
    /\ last.ev = "close"
    /\ prev.ev = "open"
    /\ MenuOpenIn(last.before.classList)
    /\ Transparent(last.before.classList)
    /\ timers # << >>
    /\ MenuClosedIn(classList)

\* C8: a theme-toggle click leaves the classes of the menu panel, overlay,
\* open and close controls unchanged; an open-click, a close-click and the
\* timer callback leave the root, sun and moon classes, the persisted key
\* and window.darkMode unchanged.
C8_MenuAndThemeIndependent ==
    /\ last.ev = "toggle" =>
         \A id \in MenuElements : classList[id] = last.before.classList[id]
    /\ last.ev \in {"open", "close", "timer"} =>
         /\ ThemeView(classList) = ThemeView(last.before.classList)
         /\ localStorage = last.before.localStorage
         /\ darkMode = last.before.darkMode

\* Reached: a theme-toggle click on the open menu, the overlay still
\* transparent, right after the open-click.
C8_Witness ==
    /\ last.ev = "toggle"
    /\ prev.ev = "open"
    /\ ThemeView(classList) # ThemeView(last.before.classList)
    /\ MenuOpenIn(classList)
    /\ Transparent(classList)

\* What C9 compares: sun, moon, root classes and the persisted key.
ThemeState(m) == <<ThemeView(m.classList), m.localStorage>>

\* C9: from any state, showDay applied twice gives the sun, moon, root
\* classes and persisted key that showDay applied once gives; the same for
\* showNight.
C9_ThemeEffectsIdempotent ==
    /\ ThemeState(showDay(showDay(Machine))) = ThemeState(showDay(Machine))
    /\ ThemeState(showNight(showNight(Machine))) = ThemeState(showNight(Machine))

\* Reached: showDay has just turned Night into Day (by a toggle click), and
\* showNight would change that state.
C9_Witness ==
    /\ last.ev = "toggle"
    /\ NightIn(last.before.classList)
    /\ DayIn(classList)
    /\ ThemeState(showDay(Machine)) = ThemeState(Machine)
    /\ ThemeState(showNight(Machine)) # ThemeState(Machine)

\* C10 as stated: in every state the controller leaves behind (an event
\* has been handled) the key, when present, holds "true".
C10_StoredValueIsTrue ==
    last.ev # "none" => (HasKey(localStorage) => KeyIs(localStorage, "true"))

\* C10 amended: the controller never writes a value other than "true":
\* every event leaves the key as it was, absent or "true", and after a
\* theme-toggle click the key is absent or "true".
C10_WritesOnlyTrue ==
    /\ last.ev # "none" =>
         \/ localStorage = last.before.localStorage
         \/ ~HasKey(localStorage)
         \/ KeyIs(localStorage, "true")
    /\ (last.ev = "toggle" /\ last.ran) =>
         (~HasKey(localStorage) \/ KeyIs(localStorage, "true"))

\* Reached: a theme-toggle click has replaced a stored "false" by "true".
C10_Witness ==
    /\ last.ev = "toggle"
    /\ KeyIs(last.before.localStorage, "false")
    /\ KeyIs(localStorage, "true")

\* The elements the document lacks.
Missing == LookedUp \ present

\* C11: when a theme-toggle handler has ended, normally or by a fault on a
\* missing element, either the whole transition has happened (dark root:
\* key removed and Day; other root: key "true" and Night) or neither the
\* key nor the sun, moon and root classes have changed.
C11_ToggleIsAtomic ==
    (last.ev = "toggle" /\ last.ran) =>
        \/ IF "dark" \in last.before.classList[Root]
           THEN ~HasKey(localStorage) /\ DayIn(classList)
           ELSE KeyIs(localStorage, "true") /\ NightIn(classList)
        \/ /\ localStorage = last.before.localStorage
           /\ ThemeView(classList) = ThemeView(last.before.classList)

\* C12: when only the sun icon, the moon icon or the theme toggle control is
\* missing, after initialization an open-click ends with the menu Open and
\* a close-click ends with the menu Closed.
C12_MenuSurvivesThemeFault ==
    (Missing \subseteq {"sun", "moon", "darkToggle"} /\ last.before.loaded) =>
        /\ last.ev = "open" => MenuOpenIn(classList)
        /\ last.ev = "close" => MenuClosedIn(classList)

\* C13: when the page is unloaded after initialization (and any theme-toggle
\* clicks) and loaded again, the sun, moon and root classes after the new
\* initialization are those just before the unload.
C13_ThemeSurvivesReload ==
    (last.ev = "load" /\ prev.ev = "reload" /\ prev.before.loaded) =>
        ThemeView(classList) = ThemeView(prev.before.classList)

\* Reached: Night entered by a click survives a reload whose fresh markup
\* carried the Day classes.
C13_Witness ==
    /\ last.ev = "load"
    /\ prev.ev = "reload"
    /\ prev.before.loaded
    /\ ~prev.before.darkMode
    /\ NightIn(prev.before.classList)
    /\ DayIn(last.before.classList)
    /\ NightIn(classList)

\* C14 as stated: every open-click shows the overlay carrying opacity-0, and
\* the class goes only when the timer callback scheduled by the most recent
\* open-click fires.
C14_FadeInByOwnCallback ==
    /\ (last.ev = "open" /\ last.ran) =>
         (Transparent(classList) /\ ~HiddenIn(classList, "mobileMenuBackground"))
    /\ (Transparent(last.before.classList) /\ ~Transparent(classList)) =>
         (last.ev = "timer" /\ Head(last.before.timers) = "own")

\* C14 amended: every open-click shows the overlay carrying opacity-0, and
\* the class goes only when a timer callback fires (that open-click's own
\* or a still pending one of an earlier open-click), never in the
\* open-click step itself nor by any other event.
C14_FadeInByCallback ==
    /\ (last.ev = "open" /\ last.ran) =>
         (Transparent(classList) /\ ~HiddenIn(classList, "mobileMenuBackground"))
    /\ (Transparent(last.before.classList) /\ ~Transparent(classList)) =>
         last.ev = "timer"

\* Reached: the callback of an earlier open-click makes the overlay opaque
\* right after a later open-click, whose own callback is still pending.
C14_Witness ==
    /\ last.ev = "timer"
    /\ prev.ev = "open"
    /\ Head(last.before.timers) = "old"
    /\ Transparent(last.before.classList)
    /\ ~Transparent(classList)
    /\ MenuOpenIn(classList)
    /\ timers = <<"own">>

\* C15: a timer callback that fires on the Closed menu leaves the panel, the
\* overlay and the controls as they are: the overlay stays hidden and the
\* menu Closed.
C15_CallbackAfterCloseKeepsClosed ==
    (last.ev = "timer" /\ MenuClosedIn(last.before.classList)) =>
        /\ MenuClosedIn(classList)
        /\ MenuVisibility(classList) = MenuVisibility(last.before.classList)

\* Reached: open-click, close-click, then the open's callback fires on the
\* hidden, still transparent overlay.
C15_Witness ==
    /\ last.ev = "timer"
    /\ prev.ev = "close"
    /\ MenuOpenIn(prev.before.classList)
    /\ Transparent(last.before.classList)
    /\ MenuClosedIn(classList)
    /\ ~Transparent(classList)

\* C16: closeMobileMenu applied twice gives the state it gives applied once;
\* openMobileMenu applied twice gives, once every pending callback has run,
\* the state it gives applied once; close ends in Closed, open in Open, and
\* the menu is never outside {Closed, Open}.
C16_MenuOperationsIdempotent ==
    /\ closeMobileMenu(closeMobileMenu(Machine)) = closeMobileMenu(Machine)
    /\ Drain(openMobileMenu(openMobileMenu(Machine))) = Drain(openMobileMenu(Machine))
    /\ MenuClosedIn(closeMobileMenu(Machine).classList)
    /\ MenuOpenIn(openMobileMenu(Machine).classList)
    /\ MenuOpenIn(classList) \/ MenuClosedIn(classList)

\* Reached: two open-clicks in a row, the second on the open menu, both
\* callbacks pending.
C16_Witness ==
    /\ last.ev = "open"
    /\ prev.ev = "open"
    /\ MenuClosedIn(prev.before.classList)
    /\ MenuOpenIn(last.before.classList)
    /\ MenuOpenIn(classList)
    /\ Len(timers) = 2

\* C17 as stated: before DOMContentLoaded has been handled, a click on the
\* theme toggle, the menu-open or the menu-close control changes neither
\* the class lists nor the persisted key.
C17_NoClickHandledBeforeLoad ==
    (last.ev \in {"toggle", "open", "close"} /\ ~last.before.loaded) =>
        /\ classList = last.before.classList
        /\ localStorage = last.before.localStorage

\* C17 amended: the menu-open and menu-close handlers are wired by the
\* initialization, so a click on them before it changes nothing; the
\* theme-toggle handler is wired when the script loads, so a click on the
\* toggle before the initialization already switches the theme and writes
\* the key.
C17_OnlyMenuWiredByLoad ==
    /\ (last.ev \in {"open", "close"} /\ ~last.before.loaded) =>
         /\ ~last.ran
         /\ classList = last.before.classList
         /\ localStorage = last.before.localStorage
    /\ (last.ev \in {"open", "close"} /\ last.before.loaded) => last.ran
    /\ (last.ev = "toggle" /\ ~last.before.loaded) =>
         /\ last.ran
         /\ IF "dark" \in last.before.classList[Root]
            THEN ~HasKey(localStorage) /\ DayIn(classList)
            ELSE KeyIs(localStorage, "true") /\ NightIn(classList)

\* Reached: before the initialization an open-click did nothing and a
\* toggle click then switched the theme and wrote the key.
C17_Witness ==
    /\ prev.ev = "open"
    /\ ~prev.ran
    /\ last.ev = "toggle"
    /\ last.ran
    /\ ~last.before.loaded
    /\ ThemeView(classList) # ThemeView(last.before.classList)
    /\ localStorage # last.before.localStorage

\* C18: right after the initialization, no click handled yet, the menu is
\* Closed (panel hidden, overlay hidden, open control visible, close
\* control hidden).
C18_MenuClosedAfterLoad ==
    (last.ev = "load" /\ prev.ev = "none") => MenuClosedIn(classList)

\* Reached: the initialization as the first event, ending in Night with the
\* menu controls wired and the menu Closed.
C18_Witness ==
    /\ last.ev = "load"
    /\ prev.ev = "none"
    /\ NightIn(classList)
    /\ {"openMenu", "closeMenu"} \subseteq listeners
    /\ MenuClosedIn(classList)

\* C19: with every element present, in every state after the
\* initialization the root carries dark exactly when "true" is stored under
\* the key.
C19_NoDrift ==
    loaded => ("dark" \in classList[Root] <=> KeyIs(localStorage, "true"))

\* Reached: after a load with "false" stored, a toggle click and an
\* open-click: dark root and "true" stored.
C19_Witness ==
    /\ loaded
    /\ prev.ev = "toggle"
    /\ KeyIs(prev.before.localStorage, "false")
    /\ prev.before.loaded
    /\ last.ev = "open"
    /\ "dark" \in classList[Root]
    /\ KeyIs(localStorage, "true")

\* C20: window.darkMode is FALSE until the initialization, which sets it
\* TRUE exactly when "true" is stored; no click and no timer callback
\* changes it.
C20_FlagWrittenOnlyByLoad ==
    /\ ~loaded => ~darkMode
    /\ last.ev = "load" => (darkMode <=> KeyIs(last.before.localStorage, "true"))
    /\ last.ev \in {"toggle", "open", "close", "timer"} =>
         darkMode = last.before.darkMode

\* Reached: a toggle click after the initialization has left Night for Day
\* and window.darkMode is still TRUE.
C20_Witness ==
    /\ last.ev = "toggle"
    /\ last.before.loaded
    /\ NightIn(last.before.classList)
    /\ DayIn(classList)
    /\ darkMode

\* Exactly one of the sun and moon icons is hidden, and the moon is the
\* visible one exactly when the root carries dark.
IconsConsistentIn(cl) ==
    /\ HiddenIn(cl, "sun") # HiddenIn(cl, "moon")
    /\ ~HiddenIn(cl, "moon") <=> "dark" \in cl[Root]

\* C21: in every state after a completed theme operation (the
\* initialization, or a theme-toggle click, also one before the
\* initialization) exactly one of the sun and moon icons is hidden and the
\* moon is visible exactly when the root carries dark.
C21_IconsConsistent ==
    /\ ((last.ev \in {"load", "toggle"} /\ last.ran) \/ loaded)
           => IconsConsistentIn(classList)
    /\ (last.ev \in {"open", "close", "timer"}
            /\ IconsConsistentIn(last.before.classList))
           => IconsConsistentIn(classList)

\* Reached: a toggle click before the initialization, on markup that showed
\* both icons, has left the moon alone visible on a dark root.
C21_Witness ==
    /\ last.ev = "toggle"
    /\ ~last.before.loaded
    /\ ~HiddenIn(last.before.classList, "sun")
    /\ ~HiddenIn(last.before.classList, "moon")
    /\ IconsConsistentIn(classList)
    /\ "dark" \in classList[Root]

\* Exactly one of the open and close controls is hidden, and the panel is
\* visible exactly when the overlay is not hidden, exactly when the close
\* control is visible.
MenuConsistentIn(cl) ==
    /\ HiddenIn(cl, "openMenu") # HiddenIn(cl, "closeMenu")
    /\ ~HiddenIn(cl, "menu") <=> ~HiddenIn(cl, "mobileMenuBackground")
    /\ ~HiddenIn(cl, "menu") <=> ~HiddenIn(cl, "closeMenu")

\* C22: after every completed open or close operation exactly one of the
\* open and close controls is hidden and the panel is visible exactly when
\* the overlay is not hidden, exactly when the close control is visible;
\* the timer callback, like every other event, preserves this.
C22_MenuElementsConsistent ==
    /\ (last.ev \in {"open", "close"} /\ last.ran)
           => MenuConsistentIn(classList)
    /\ (last.ev \in {"timer", "load", "toggle"}
            /\ MenuConsistentIn(last.before.classList))
           => MenuConsistentIn(classList)

\* Reached: a close-click, after the callback of the open has fired, has
\* taken the consistent open menu to the consistent closed one.
C22_Witness ==
    /\ last.ev = "close"
    /\ prev.ev = "timer"
    /\ MenuOpenIn(last.before.classList)
    /\ MenuConsistentIn(last.before.classList)
    /\ MenuClosedIn(classList)
    /\ MenuConsistentIn(classList)

====
